---- MODULE Spec2Model ----
(***************************************************************************)
(* resctl-bench: the job-spec parser (resctl-bench-intf/src/args.rs), the  *)
(* calibration negotiator and the run / format drivers                     *)
(* (resctl-bench/src/main.rs).                                             *)
(*                                                                         *)
(* Text is modelled as a sequence of one-character strings, so that        *)
(* str::split(':') and str::splitn(2, '=') are computed character by       *)
(* character.  A BTreeMap<String, String> is a function from its keys to   *)
(* its values.                                                             *)
(***************************************************************************)
EXTENDS Integers, Sequences, FiniteSets, TLC

VARIABLES
    \* ---- Args::parse_job_spec --------------------------------------------
    p_pc,         \* "start" | "loop" | "done": position in parse_job_spec
    p_text,       \* spec: &str, the text being parsed
    p_toks,       \* the tokens spec.split(':') yields
    p_i,          \* number of tokens the iterator has yielded so far
    p_kind,       \* kind
    p_id,         \* id: Option<&str>
    p_props,      \* properties: Vec<BTreeMap<String, String>>
    p_result,     \* the Result<JobSpec> returned
    \* ---- Program::prep_base_bench ----------------------------------------
    b_pc,         \* "call" | "done": before / after prep_base_bench
    b_load,       \* what BenchKnobs::load(demo_bench_path) returns
    b_dev,        \* what devname_to_model_fwrev_size(scr_devname) returns
    b_from_sys,   \* args.iocost_from_sys
    b_sys,        \* iocost_sys_save: the live iocost snapshot
    b_result,     \* the Result<BenchKnobs> returned, with the local bench
    \* ---- Program: main, do_run, clean_up_report_files, do_format ---------
    m_pc,            \* position of the control thread
    m_mode,          \* args.mode
    m_study,         \* args.study_rep_d.is_some()
    m_args_updated,  \* Program::args_updated
    m_keep_reports,  \* args.keep_reports
    m_clear_reports, \* args.clear_reports
    m_rep_retention, \* args.rep_retention
    m_job_specs,     \* args.job_specs
    m_result_file,   \* the result file on disk
    m_jobs,          \* Program::jobs, the job store (JobCtxs.vec)
    m_lock,          \* the MutexGuard do_run holds on the job store
    m_pending,       \* do_run: pending.vec
    m_i,             \* the running loop's iterator position
    m_written,       \* number of times the args file has been written
    m_agent,         \* the rd-agent subprocess in flight: "none" | "cleanup" | "job"
    m_cleanups,      \* the cleanup-only invocations made, with their arguments
    m_warned,        \* number of "Failed to clean up report files" warnings
    m_started,       \* indices into pending of the jobs started, in order
    m_finished,      \* the outcome of each job run that has returned, in order
    m_jctxs,         \* do_format: jctxs, swapped out of the job store
    m_to_format,     \* do_format: to_format
    m_printed,       \* the (jctx, props) pairs rendered, in order
    \* ---- Args::process_cmdline, the "run" subcommand ---------------------
    c_pc,            \* "jobspecs" | "jobfiles" | "merge" | "done" | "exited"
    c_argv,          \* the subcommand's arguments, by command-line position
    c_job_specs,     \* self.job_specs
    c_jobsets,       \* jobsets: BTreeMap<usize, Vec<JobSpec>>
    c_i,             \* command-line position the running loop has reached
    c_errors,        \* the inputs reported with error!(), in order
    c_updated        \* updated

parseVars == <<p_pc, p_text, p_toks, p_i, p_kind, p_id, p_props, p_result>>
prepVars == <<b_pc, b_load, b_dev, b_from_sys, b_sys, b_result>>

mainCfg == <<m_mode, m_study, m_args_updated, m_keep_reports, m_clear_reports,
             m_rep_retention, m_job_specs, m_result_file>>
mainVars == <<m_pc, mainCfg, m_jobs, m_lock, m_pending, m_i, m_written, m_agent,
              m_cleanups, m_warned, m_started, m_finished, m_jctxs, m_to_format,
              m_printed>>

cmdVars == <<c_pc, c_argv, c_job_specs, c_jobsets, c_i, c_errors, c_updated>>

vars == <<parseVars, prepVars, mainVars, cmdVars>>

\* what the steps of one part leave alone
notParse == <<prepVars, mainVars, cmdVars>>
notPrep == <<parseVars, mainVars, cmdVars>>
notCmd == <<parseVars, prepVars, mainVars>>
prepInputs == <<b_pc, b_load, b_dev, b_from_sys, b_sys>>

----------------------------------------------------------------------------
(* Bounds of the model *)

\* longest token sequence the enumerated spec texts are built from
MaxToks == 4

\* largest iocost_seq a loaded bench file holds
MaxSeq == 2

\* most job specs of a run invocation
MaxJobs == 3

\* most contexts of a result file that is formatted
MaxStored == 2

\* most job specs of a format invocation
MaxFmtSpecs == 2

\* most jobspec / --job arguments of the run subcommand
MaxArgs == 3

\* largest configured report retention
MaxRetention == 2

\* most property groups of a JobSpec that is rendered and parsed back
MaxGroups == 2

----------------------------------------------------------------------------
(* Text helpers *)

RECURSIVE IndexOf(_, _, _)
\* first position >= i of character c in s, 0 when there is none
IndexOf(s, c, i) ==
    IF i > Len(s) THEN 0
    ELSE IF s[i] = c THEN i
    ELSE IndexOf(s, c, i + 1)

RECURSIVE Split(_, _)
\* str::split(c): always yields at least one token; "" yields one empty token
Split(s, c) ==
    LET i == IndexOf(s, c, 1)
    IN  IF i = 0 THEN <<s>>
        ELSE <<SubSeq(s, 1, i - 1)>> \o Split(SubSeq(s, i + 1, Len(s)), c)

\* (variant of SplitKv: split at every '=', the first two pieces kept)
SplitKvEvery(tok) ==
    LET i == IndexOf(tok, "=", 1)
        j == IndexOf(tok, "=", i + 1)
    IN  IF i = 0 THEN <<tok, <<>>>>
        ELSE <<SubSeq(tok, 1, i - 1),
               SubSeq(tok, i + 1, IF j = 0 THEN Len(tok) ELSE j - 1)>>

\* tok.splitn(2, '=').collect(), then padded with "" up to two entries
SplitKv(tok) ==
    LET i == IndexOf(tok, "=", 1)
    IN  IF i = 0 THEN <<tok, <<>>>>
        ELSE <<SubSeq(tok, 1, i - 1), SubSeq(tok, i + 1, Len(tok))>>

RECURSIVE Join(_)
\* the tokens joined by ':'
Join(ts) ==
    IF Len(ts) = 0 THEN <<>>
    ELSE IF Len(ts) = 1 THEN ts[1]
    ELSE ts[1] \o <<":">> \o Join(Tail(ts))

BoundedSeq(S, n) == UNION {[1..k -> S] : k \in 0..n}

\* BTreeMap
EmptyMap == <<>>
MapLen(m) == Cardinality(DOMAIN m)
MapInsert(m, k, v) == [x \in (DOMAIN m) \cup {k} |-> IF x = k THEN v ELSE m[x]]

NoneId == [some |-> FALSE, v |-> <<>>]
SomeId(v) == [some |-> TRUE, v |-> v]

IdKey == <<"i", "d">>

----------------------------------------------------------------------------
(* Args::parse_job_spec *)

\* the tokens the enumerated texts are made of
Tokens ==
    { <<>>,                           \* group separator
      <<"k">>,                        \* a kind, or a key without '='
      <<"i", "d", "=", "x">>,         \* id=x
      <<"i", "d">>,                   \* id (no '=': empty value)
      <<"a", "=", "1">>,
      <<"a", "=", "2">>,
      <<"b", "=", "2">> }

\* "fio:id=foo::a=1::b=2", "fio:rw=randwrite:bs=4k" and "fio:a=1::" with short names
ExampleIdGroups ==
    Join(<< <<"f">>, <<"i", "d", "=", "x">>, <<>>, <<"a", "=", "1">>, <<>>,
            <<"b", "=", "2">> >>)
ExampleOneGroup == Join(<< <<"f">>, <<"a", "=", "1">>, <<"b", "=", "2">> >>)
ExampleTrailing == Join(<< <<"f">>, <<"a", "=", "1">>, <<>>, <<>> >>)
ExampleTwoIds ==
    Join(<< <<"f">>, <<"i", "d", "=", "x">>, <<>>, <<"a", "=", "1">>,
            <<"i", "d", "=", "y">>, <<>>, <<>>, <<"i", "d">> >>)

SpecTexts ==
    {Join(ts) : ts \in BoundedSeq(Tokens, MaxToks)}
        \cup {ExampleIdGroups, ExampleOneGroup, ExampleTrailing, ExampleTwoIds}

\* JobSpec::new(kind, id, properties)
JobSpecNew(kind, id, props) == [kind |-> kind, id |-> id, props |-> props]

NoJobSpec == JobSpecNew(<<>>, NoneId, <<>>)

\* (variant of SeparatorPushes: only a non-empty last group lets the separator push)
SeparatorPushesLastOnly(props) ==
    MapLen(props[Len(props)]) > 0

\* the condition of line 83: does the separator push a new group?
SeparatorPushes(props) ==
    Len(props) = 1 \/ MapLen(props[Len(props)]) > 0

\* lines 79-87: an empty token
OnSeparator(props) ==
    IF SeparatorPushes(props) THEN Append(props, EmptyMap) ELSE props

\* (variant of KeyIsId: no key is special)
KeyIsIdNever(key) == FALSE

\* line 96: the match arm "id"
KeyIsId(key) == key = IdKey

\* lines 97-102: properties.last_mut().unwrap().insert(key, value)
OnProp(props, key, val) ==
    [props EXCEPT ![Len(props)] = MapInsert(props[Len(props)], key, val)]

\* (variant of DropTrailing: the trailing group is kept)
DropTrailingNever(props) == props

\* lines 106-108: drop a trailing empty group
DropTrailing(props) ==
    IF Len(props) > 1 /\ MapLen(props[Len(props)]) = 0
    THEN SubSeq(props, 1, Len(props) - 1)
    ELSE props

----------------------------------------------------------------------------
(* Program::prep_base_bench *)

\* rd_agent_intf::BenchKnobs, the fields prep_base_bench reads or writes
BenchKnobs(model, fwrev, size, seq, imodel, iqos) ==
    [iocost_dev_model |-> model,
     iocost_dev_fwrev |-> fwrev,
     iocost_dev_size |-> size,
     iocost_seq |-> seq,
     iocost_model |-> imodel,
     iocost_qos |-> iqos]

\* BenchKnobs::default(): empty identity, sequence 0, default parameters
DefaultBench == BenchKnobs("", "", 0, 0, "dfl", "dfl")

DevModels == {"mA", "mB"}
DevFwrevs == {"fA", "fB"}
DevSizes == {1, 2}
IoCostParams == {"dfl", "p1"}

\* the bench files BenchKnobs::load can return
LoadedBenches ==
    {BenchKnobs(m, f, sz, sq, im, iq) :
        m \in DevModels \cup {""}, f \in DevFwrevs \cup {""},
        sz \in DevSizes \cup {0}, sq \in 0..MaxSeq,
        im \in IoCostParams, iq \in IoCostParams}

\* Ok(bench), Err(io::Error ENOENT), or any other Err
LoadResults ==
    {[status |-> "ok", bench |-> b] : b \in LoadedBenches}
        \cup {[status |-> "enoent", bench |-> DefaultBench],
              [status |-> "error", bench |-> DefaultBench]}

\* Ok((dev_model, dev_fwrev, dev_size)) or Err
DevResults ==
    {[status |-> "ok", model |-> m, fwrev |-> f, size |-> sz] :
        m \in DevModels, f \in DevFwrevs, sz \in DevSizes}
        \cup {[status |-> "err", model |-> "", fwrev |-> "", size |-> 0]}

SysSaves ==
    {[enable |-> e, model |-> m, qos |-> q] :
        e \in BOOLEAN, m \in IoCostParams, q \in IoCostParams}

\* what prep_base_bench returns: Ok(bench), or Err(why) with the local
\* bench as it stood at the bail (warned: the load failure was logged)
PrepOk(bench, warned) ==
    [status |-> "ok", err |-> "", bench |-> bench, warned |-> warned]
PrepErr(why, bench, warned) ==
    [status |-> "err", err |-> why, bench |-> bench, warned |-> warned]
PrepNone == [status |-> "none", err |-> "", bench |-> DefaultBench, warned |-> FALSE]

\* lines 125-137: the loaded bench file, or the default when loading fails
LoadOrDefault(load) ==
    IF load.status = "ok" THEN load.bench ELSE DefaultBench

\* lines 128-134: everything but ENOENT is logged
LoadWarns(load) == load.status = "error"

\* (variant of IdentityMismatch: the firmware revision is not compared)
IdentityMismatchNoFwrev(bench, dev) ==
    IF bench.iocost_dev_model # "" /\ bench.iocost_dev_model # dev.model
    THEN "model"
    ELSE IF bench.iocost_dev_size > 0 /\ bench.iocost_dev_size # dev.size
    THEN "size"
    ELSE ""

\* lines 139-159: the first identity field that is set and differs, "" if none
IdentityMismatch(bench, dev) ==
    IF bench.iocost_dev_model # "" /\ bench.iocost_dev_model # dev.model
    THEN "model"
    ELSE IF bench.iocost_dev_fwrev # "" /\ bench.iocost_dev_fwrev # dev.fwrev
    THEN "fwrev"
    ELSE IF bench.iocost_dev_size > 0 /\ bench.iocost_dev_size # dev.size
    THEN "size"
    ELSE ""

\* (variant of RecordIdentity: the detected size is not recorded)
RecordIdentityNoSize(bench, dev) ==
    [bench EXCEPT !.iocost_dev_model = dev.model,
                  !.iocost_dev_fwrev = dev.fwrev]

\* (variant of RecordIdentity: recording the identity restarts the sequence)
RecordIdentityNewSeq(bench, dev) ==
    [bench EXCEPT !.iocost_dev_model = dev.model,
                  !.iocost_dev_fwrev = dev.fwrev,
                  !.iocost_dev_size = dev.size,
                  !.iocost_seq = 0]

\* lines 161-163
RecordIdentity(bench, dev) ==
    [bench EXCEPT !.iocost_dev_model = dev.model,
                  !.iocost_dev_fwrev = dev.fwrev,
                  !.iocost_dev_size = dev.size]

\* lines 172-174
UseSysIoCost(bench, sys) ==
    [bench EXCEPT !.iocost_seq = 1,
                  !.iocost_model = sys.model,
                  !.iocost_qos = sys.qos]

\* lines 107-181
PrepBaseBench(load, dev, from_sys, sys) ==
    IF dev.status = "err"
    THEN PrepErr("resolve", DefaultBench, FALSE)
    ELSE
      LET bench == LoadOrDefault(load)
          warned == LoadWarns(load)
          mismatch == IdentityMismatch(bench, dev)
          recorded == RecordIdentity(bench, dev)
      IN  IF mismatch # "" THEN PrepErr(mismatch, bench, warned)
          ELSE IF from_sys
          THEN IF ~sys.enable
               THEN PrepErr("disabled", recorded, warned)
               ELSE PrepOk(UseSysIoCost(recorded, sys), warned)
          ELSE PrepOk(recorded, warned)

PrepIdle ==
    /\ b_pc = "idle"
    /\ b_load = [status |-> "enoent", bench |-> DefaultBench]
    /\ b_dev = [status |-> "ok", model |-> "mA", fwrev |-> "fA", size |-> 1]
    /\ b_from_sys = FALSE
    /\ b_sys = [enable |-> FALSE, model |-> "dfl", qos |-> "dfl"]
    /\ b_result = PrepNone

PrepInit ==
    /\ b_pc = "call"
    /\ b_load \in LoadResults
    /\ b_dev \in DevResults
    /\ b_from_sys \in BOOLEAN
    /\ b_sys \in SysSaves
    /\ b_result = PrepNone

\* one call of prep_base_bench
PrepCall ==
    /\ b_pc = "call"
    /\ b_result' = PrepBaseBench(b_load, b_dev, b_from_sys, b_sys)
    /\ b_pc' = "done"
    /\ UNCHANGED <<b_load, b_dev, b_from_sys, b_sys, notPrep>>

PrepNext == PrepCall

----------------------------------------------------------------------------
(* Program: main, do_run, commit_args, clean_up_report_files *)

\* kinds, as text
KA == <<"k", "a">>
KB == <<"k", "b">>
KC == <<"k", "c">>
KD == <<"k", "d">>
KZ == <<"k", "z">>

\* the benchmark kinds bench::init_benchs registers; KZ is not registered
RegisteredKinds == {KA, KB, KC, KD}

\* a JobSpec of kind k with id and property groups
JobSpecOf(k, id, props) == [kind |-> k, id |-> id, props |-> props]

\* the job specs of a run invocation
RunSpecs == {JobSpecOf(k, NoneId, <<EmptyMap>>) : k \in {KA, KB, KZ}}

\* a JobCtx: its spec and whether it carries a result
JobCtx(spec, has_result) == [spec |-> spec, result |-> has_result]

\* rd_agent_intf::Args::default().rep_1min_retention, in the unit the
\* configured retentions 0..MaxRetention are counted in
Rep1MinRetentionDfl == 1

\* (variant of Rep1MinRetention: the configured value is passed on as it is)
Rep1MinRetentionNoMax(rep_retention) == rep_retention

\* lines 81-83
Rep1MinRetention(rep_retention) ==
    IF rep_retention >= Rep1MinRetentionDfl THEN rep_retention
    ELSE Rep1MinRetentionDfl

\* lines 85-97: the arguments of the cleanup-only invocation
CleanUpCmd(rep_retention, clear_reports) ==
    [bypass |-> TRUE,
     prepare |-> TRUE,
     rep_retention |-> rep_retention,
     rep_1min_retention |-> Rep1MinRetention(rep_retention),
     reset |-> clear_reports]

\* JobCtxs::parse_job_spec_and_link: fails for an unregistered kind
LinkOk(spec) == spec.kind \in RegisteredKinds

MainIdle ==
    /\ m_pc = "idle"
    /\ m_mode = "Run"
    /\ m_study = FALSE
    /\ m_args_updated = FALSE
    /\ m_keep_reports = FALSE
    /\ m_clear_reports = FALSE
    /\ m_rep_retention = 0
    /\ m_job_specs = <<>>
    /\ m_result_file = [exists |-> FALSE, ok |-> TRUE, ctxs |-> <<>>]
    /\ m_jobs = <<>>
    /\ m_lock = FALSE
    /\ m_pending = <<>>
    /\ m_i = 0
    /\ m_written = 0
    /\ m_agent = "none"
    /\ m_cleanups = <<>>
    /\ m_warned = 0
    /\ m_started = <<>>
    /\ m_finished = <<>>
    /\ m_jctxs = <<>>
    /\ m_to_format = <<>>
    /\ m_printed = <<>>

\* Program { args_file, args_updated, jobs: JobCtxs::default() } (lines 360-364)
MainStart ==
    /\ m_pc = "main"
    /\ m_jobs = <<>>
    /\ m_lock = FALSE
    /\ m_pending = <<>>
    /\ m_i = 0
    /\ m_written = 0
    /\ m_agent = "none"
    /\ m_cleanups = <<>>
    /\ m_warned = 0
    /\ m_started = <<>>
    /\ m_finished = <<>>
    /\ m_jctxs = <<>>
    /\ m_to_format = <<>>
    /\ m_printed = <<>>

\* lines 341-345
ModeEntry(mode) == IF mode = "Run" THEN "run_prep" ELSE "fmt_swap"

\* lines 323-345: load the result file when there is one, then dispatch
MainLoad ==
    /\ m_pc = "main"
    /\ IF m_result_file.exists
       THEN IF m_result_file.ok
            THEN /\ m_jobs' = m_result_file.ctxs
                 /\ m_pc' = ModeEntry(m_mode)
            ELSE /\ m_pc' = "panicked"
                 /\ UNCHANGED m_jobs
       ELSE /\ m_pc' = ModeEntry(m_mode)
            /\ UNCHANGED m_jobs
    /\ UNCHANGED <<mainCfg, m_lock, m_pending, m_i, m_written, m_agent, m_cleanups,
                   m_warned, m_started, m_finished, m_jctxs, m_to_format, m_printed>>
    /\ UNCHANGED <<parseVars, prepVars, cmdVars>>

\* (variant of AfterPrep: a failed prepare is logged and do_run goes on)
AfterPrepGoOn(status) == "run_lock"

\* lines 219-225: Ok(v) goes on, Err(e) is logged and panics
AfterPrep(status) == IF status = "ok" THEN "run_lock" ELSE "panicked"

\* lines 194-229: resolve the device and prepare the base bench, or use the
\* default in study mode
DoRunPrep ==
    /\ m_pc = "run_prep"
    /\ LET res == IF m_study THEN PrepOk(DefaultBench, FALSE)
                  ELSE PrepBaseBench(b_load, b_dev, b_from_sys, b_sys)
       IN  /\ b_result' = res
           /\ m_pc' = AfterPrep(res.status)
    /\ UNCHANGED <<mainCfg, m_jobs, m_lock, m_pending, m_i, m_written, m_agent,
                   m_cleanups, m_warned, m_started, m_finished, m_jctxs, m_to_format,
                   m_printed>>
    /\ UNCHANGED <<parseVars, prepInputs, cmdVars>>

\* lines 232-234: take the job-store lock, start with no pending job
DoRunLock ==
    /\ m_pc = "run_lock"
    /\ m_lock' = TRUE
    /\ m_pending' = <<>>
    /\ m_i' = 0
    /\ m_pc' = "run_link"
    /\ UNCHANGED <<mainCfg, m_jobs, m_written, m_agent, m_cleanups, m_warned,
                   m_started, m_finished, m_jctxs, m_to_format, m_printed>>
    /\ UNCHANGED <<parseVars, prepVars, cmdVars>>

\* lines 235-243: one iteration over args.job_specs
DoRunLink ==
    /\ m_pc = "run_link"
    /\ m_i < Len(m_job_specs)
    /\ LET spec == m_job_specs[m_i + 1]
       IN  IF LinkOk(spec)
           THEN /\ m_pending' = Append(m_pending, JobCtx(spec, FALSE))
                /\ m_i' = m_i + 1
                /\ UNCHANGED m_pc
           ELSE /\ m_pc' = "exited"
                /\ UNCHANGED <<m_pending, m_i>>
    /\ UNCHANGED <<mainCfg, m_jobs, m_lock, m_written, m_agent, m_cleanups,
                   m_warned, m_started, m_finished, m_jctxs, m_to_format, m_printed>>
    /\ UNCHANGED <<parseVars, prepVars, cmdVars>>

\* (variant of AfterLink: the commit is left for later)
AfterLinkNoCommit == "run_cleanup"

\* lines 245-246: all specs are linked
AfterLink == "run_commit"

\* the link loop is over
DoRunLinked ==
    /\ m_pc = "run_link"
    /\ m_i = Len(m_job_specs)
    /\ m_pc' = AfterLink
    /\ UNCHANGED <<mainCfg, m_jobs, m_lock, m_pending, m_i, m_written, m_agent,
                   m_cleanups, m_warned, m_started, m_finished, m_jctxs, m_to_format,
                   m_printed>>
    /\ UNCHANGED <<parseVars, prepVars, cmdVars>>

\* lines 183-191: commit_args; next is where the caller goes on
CommitArgs(next) ==
    /\ \E saved \in BOOLEAN :
          IF m_args_updated
          THEN IF saved
               THEN m_written' = m_written + 1 /\ m_pc' = next
               ELSE m_pc' = "panicked" /\ UNCHANGED m_written
          ELSE m_pc' = next /\ UNCHANGED m_written

\* line 246
DoRunCommit ==
    /\ m_pc = "run_commit"
    /\ CommitArgs("run_cleanup")
    /\ UNCHANGED <<mainCfg, m_jobs, m_lock, m_pending, m_i, m_agent, m_cleanups,
                   m_warned, m_started, m_finished, m_jctxs, m_to_format, m_printed>>
    /\ UNCHANGED <<parseVars, prepVars, cmdVars>>

\* (variant of WantsCleanUp: --keep-reports is not looked at)
WantsCleanUpAnyway == Len(m_pending) > 0

\* line 248
WantsCleanUp == Len(m_pending) > 0 /\ ~m_keep_reports

\* (variant of AfterCleanUp: a failed cleanup ends the invocation)
AfterCleanUpFatal(ok) == IF ok THEN "run_drop" ELSE "panicked"

\* lines 249-251: Err(e) of clean_up_report_files is only warned about, and
\* do_run goes on either way
AfterCleanUp(ok) == "run_drop"

\* lines 248-249, 79-99: start the cleanup-only agent; cmd.status() may fail
\* to start it, which line 250 only warns about
CleanUpSpawn ==
    /\ m_pc = "run_cleanup"
    /\ WantsCleanUp
    /\ m_cleanups' = Append(m_cleanups, CleanUpCmd(m_rep_retention, m_clear_reports))
    /\ \E spawned \in BOOLEAN :
          IF spawned
          THEN m_agent' = "cleanup" /\ m_pc' = "cleanup_wait" /\ UNCHANGED m_warned
          ELSE /\ m_warned' = m_warned + 1
               /\ m_pc' = AfterCleanUp(FALSE)
               /\ UNCHANGED m_agent
    /\ UNCHANGED <<mainCfg, m_jobs, m_lock, m_pending, m_i, m_written, m_started,
                   m_finished, m_jctxs, m_to_format, m_printed>>
    /\ UNCHANGED <<parseVars, prepVars, cmdVars>>

\* lines 99-104, 249-251: the cleanup agent exits
CleanUpExit ==
    /\ m_pc = "cleanup_wait"
    /\ m_agent' = "none"
    /\ \E success \in BOOLEAN :
          /\ m_warned' = IF success THEN m_warned ELSE m_warned + 1
          /\ m_pc' = AfterCleanUp(success)
    /\ UNCHANGED <<mainCfg, m_jobs, m_lock, m_pending, m_i, m_written, m_cleanups,
                   m_started, m_finished, m_jctxs, m_to_format, m_printed>>
    /\ UNCHANGED <<parseVars, prepVars, cmdVars>>

\* line 248: nothing pending, or --keep-reports
CleanUpSkip ==
    /\ m_pc = "run_cleanup"
    /\ ~WantsCleanUp
    /\ m_pc' = "run_drop"
    /\ UNCHANGED <<mainCfg, m_jobs, m_lock, m_pending, m_i, m_written, m_agent,
                   m_cleanups, m_warned, m_started, m_finished, m_jctxs, m_to_format,
                   m_printed>>
    /\ UNCHANGED <<parseVars, prepVars, cmdVars>>

\* (variant of DropJobs: the guard stays alive through the job loop)
DropJobsAtReturn(lock) == lock

\* line 261: drop(jobs) releases the job-store lock
DropJobs(lock) == FALSE

\* lines 254-261: the debug listing, then drop(jobs)
DoRunDrop ==
    /\ m_pc = "run_drop"
    /\ m_lock' = DropJobs(m_lock)
    /\ m_i' = 0
    /\ m_pc' = "run_jobs"
    /\ UNCHANGED <<mainCfg, m_jobs, m_pending, m_written, m_agent, m_cleanups,
                   m_warned, m_started, m_finished, m_jctxs, m_to_format, m_printed>>
    /\ UNCHANGED <<parseVars, prepVars, cmdVars>>

\* lines 262-265: the next pending job is handed to RunCtx::run_jctx
RunJctxStart ==
    /\ m_pc = "run_jobs"
    /\ m_i < Len(m_pending)
    /\ m_i' = m_i + 1
    /\ m_started' = Append(m_started, m_i + 1)
    /\ m_agent' = "job"
    /\ m_pc' = "job_wait"
    /\ UNCHANGED <<mainCfg, m_jobs, m_lock, m_pending, m_written, m_cleanups,
                   m_warned, m_finished, m_jctxs, m_to_format, m_printed>>
    /\ UNCHANGED <<parseVars, prepVars, cmdVars>>

\* (variant of AfterRunJctx: a failed run is logged and the loop goes on)
AfterRunJctxGoOn(ok) == "run_jobs"

\* lines 265-268: Err(e) is fatal
AfterRunJctx(ok) == IF ok THEN "run_jobs" ELSE "panicked"

\* line 265: run_jctx returns Ok or Err
RunJctxEnd ==
    /\ m_pc = "job_wait"
    /\ \E ok \in BOOLEAN :
          /\ m_finished' = Append(m_finished, ok)
          /\ m_pc' = AfterRunJctx(ok)
    /\ m_agent' = "none"
    /\ UNCHANGED <<mainCfg, m_jobs, m_lock, m_pending, m_i, m_written, m_cleanups,
                   m_warned, m_started, m_jctxs, m_to_format, m_printed>>
    /\ UNCHANGED <<parseVars, prepVars, cmdVars>>

\* line 269-270: the loop is over, do_run returns
DoRunReturn ==
    /\ m_pc = "run_jobs"
    /\ m_i = Len(m_pending)
    /\ m_pc' = "done"
    /\ UNCHANGED <<mainCfg, m_jobs, m_lock, m_pending, m_i, m_written, m_agent,
                   m_cleanups, m_warned, m_started, m_finished, m_jctxs, m_to_format,
                   m_printed>>
    /\ UNCHANGED <<parseVars, prepVars, cmdVars>>

----------------------------------------------------------------------------
(* Program::do_format *)

\* desc().takes_format_props of each kind's bench
TakesFormatProps(kind) == kind \in {KB, KC}

\* desc().takes_format_propsets of each kind's bench
TakesFormatPropsets(kind) == kind \in {KC, KD}

\* JobCtxs::pop_matching_jctx: does a stored context match the spec?
JctxMatches(jctx, spec) ==
    jctx.spec.kind = spec.kind /\ jctx.spec.id = spec.id

\* (variant of FirstMatch: the last matching context is taken)
LastMatch(jctxs, spec) ==
    IF \E k \in 1..Len(jctxs) : JctxMatches(jctxs[k], spec)
    THEN CHOOSE k \in 1..Len(jctxs) :
            /\ JctxMatches(jctxs[k], spec)
            /\ \A j \in (k + 1)..Len(jctxs) : ~JctxMatches(jctxs[j], spec)
    ELSE 0

\* position of the first stored context matching spec, 0 when there is none
FirstMatch(jctxs, spec) ==
    IF \E k \in 1..Len(jctxs) : JctxMatches(jctxs[k], spec)
    THEN CHOOSE k \in 1..Len(jctxs) :
            /\ JctxMatches(jctxs[k], spec)
            /\ \A j \in 1..(k - 1) : ~JctxMatches(jctxs[j], spec)
    ELSE 0

\* the sequence without its k-th entry
RemoveAt(seq, k) == SubSeq(seq, 1, k - 1) \o SubSeq(seq, k + 1, Len(seq))

\* line 274
EmptyProps == <<EmptyMap>>

\* lines 292-305: may the matched context be formatted with the spec?
FormatCheck(jctx, spec) ==
    IF ~TakesFormatProps(jctx.spec.kind) /\ MapLen(spec.props[1]) > 0
    THEN "props"
    ELSE IF ~TakesFormatPropsets(jctx.spec.kind) /\ Len(spec.props) > 1
    THEN "propsets"
    ELSE "ok"

\* lines 273-277: swap the store's contexts out
DoFormatSwap ==
    /\ m_pc = "fmt_swap"
    /\ m_jctxs' = m_jobs
    /\ m_jobs' = <<>>
    /\ m_to_format' = <<>>
    /\ m_i' = 0
    /\ m_pc' = "fmt_select"
    /\ UNCHANGED <<mainCfg, m_lock, m_pending, m_written, m_agent, m_cleanups,
                   m_warned, m_started, m_finished, m_printed>>
    /\ UNCHANGED <<parseVars, prepVars, cmdVars>>

\* (variant of FormatAll: the stored contexts are taken last to first)
FormatAllReversed(jctxs) ==
    [k \in 1..Len(jctxs) |->
        [jctx |-> jctxs[Len(jctxs) + 1 - k], props |-> EmptyProps]]

\* line 280: jctxs.vec.into_iter().map(|x| (x, &empty_props)).collect()
FormatAll(jctxs) ==
    [k \in 1..Len(jctxs) |-> [jctx |-> jctxs[k], props |-> EmptyProps]]

\* lines 279-280: no spec given, every stored context with empty props
DoFormatAll ==
    /\ m_pc = "fmt_select"
    /\ Len(m_job_specs) = 0
    /\ m_to_format' = FormatAll(m_jctxs)
    /\ m_jctxs' = <<>>
    /\ m_i' = 0
    /\ m_pc' = "fmt_print"
    /\ UNCHANGED <<mainCfg, m_jobs, m_lock, m_pending, m_written, m_agent,
                   m_cleanups, m_warned, m_started, m_finished, m_printed>>
    /\ UNCHANGED <<parseVars, prepVars, cmdVars>>

\* (variant of OnFormatError: the selection stops and what was selected so
\* far is rendered)
OnFormatErrorStop(why) == "fmt_print"

\* lines 285-288, 293-297, 300-304: error!(..) and exit(1), whether no
\* context matches or the kind does not take the props / propsets
OnFormatError(why) == "exited"

\* lines 282-307: one iteration over the requested specs
DoFormatSelect ==
    /\ m_pc = "fmt_select"
    /\ m_i < Len(m_job_specs)
    /\ LET spec == m_job_specs[m_i + 1]
           k == FirstMatch(m_jctxs, spec)
       IN  IF k = 0
           THEN /\ m_pc' = OnFormatError("nomatch")
                /\ UNCHANGED <<m_jctxs, m_to_format, m_i>>
           ELSE /\ m_jctxs' = RemoveAt(m_jctxs, k)
                /\ IF FormatCheck(m_jctxs[k], spec) = "ok"
                   THEN /\ m_to_format' =
                              Append(m_to_format,
                                     [jctx |-> m_jctxs[k], props |-> spec.props])
                        /\ m_i' = m_i + 1
                        /\ UNCHANGED m_pc
                   ELSE /\ m_pc' = OnFormatError(FormatCheck(m_jctxs[k], spec))
                        /\ UNCHANGED <<m_to_format, m_i>>
    /\ UNCHANGED <<mainCfg, m_jobs, m_lock, m_pending, m_written, m_agent,
                   m_cleanups, m_warned, m_started, m_finished, m_printed>>
    /\ UNCHANGED <<parseVars, prepVars, cmdVars>>

\* line 308: every requested spec has its context
DoFormatSelected ==
    /\ m_pc = "fmt_select"
    /\ Len(m_job_specs) > 0
    /\ m_i = Len(m_job_specs)
    /\ m_i' = 0
    /\ m_pc' = "fmt_print"
    /\ UNCHANGED <<mainCfg, m_jobs, m_lock, m_pending, m_written, m_agent,
                   m_cleanups, m_warned, m_started, m_finished, m_jctxs,
                   m_to_format, m_printed>>
    /\ UNCHANGED <<parseVars, prepVars, cmdVars>>

\* lines 310-315: render one selected context; a failure panics
DoFormatPrint ==
    /\ m_pc = "fmt_print"
    /\ m_i < Len(m_to_format)
    /\ \E ok \in BOOLEAN :
          IF ok
          THEN /\ m_printed' = Append(m_printed, m_to_format[m_i + 1])
               /\ m_i' = m_i + 1
               /\ UNCHANGED m_pc
          ELSE /\ m_pc' = "panicked"
               /\ UNCHANGED <<m_printed, m_i>>
    /\ UNCHANGED <<mainCfg, m_jobs, m_lock, m_pending, m_written, m_agent,
                   m_cleanups, m_warned, m_started, m_finished, m_jctxs,
                   m_to_format>>
    /\ UNCHANGED <<parseVars, prepVars, cmdVars>>

\* line 317
DoFormatCommit ==
    /\ m_pc = "fmt_print"
    /\ m_i = Len(m_to_format)
    /\ CommitArgs("done")
    /\ UNCHANGED <<mainCfg, m_jobs, m_lock, m_pending, m_i, m_agent, m_cleanups,
                   m_warned, m_started, m_finished, m_jctxs, m_to_format,
                   m_printed>>
    /\ UNCHANGED <<parseVars, prepVars, cmdVars>>

----------------------------------------------------------------------------
(* The program: one invocation *)

\* the contexts a result file holds
PropA == MapInsert(EmptyMap, <<"a">>, <<"1">>)
PropB == MapInsert(EmptyMap, <<"b">>, <<"2">>)

StoredCtxs ==
    {JobCtx(JobSpecOf(k, NoneId, <<EmptyMap>>), TRUE) : k \in RegisteredKinds}
        \cup {JobCtx(JobSpecOf(KA, SomeId(<<"x">>), <<EmptyMap>>), TRUE),
              JobCtx(JobSpecOf(KA, NoneId, <<PropA>>), TRUE)}

\* the job specs of a format or summary invocation
FormatSpecs ==
    { JobSpecOf(KA, NoneId, <<EmptyMap>>),
      JobSpecOf(KA, SomeId(<<"x">>), <<EmptyMap>>),
      JobSpecOf(KA, NoneId, <<PropA>>),
      JobSpecOf(KB, NoneId, <<PropA>>),
      JobSpecOf(KB, NoneId, <<EmptyMap, PropB>>),
      JobSpecOf(KC, NoneId, <<PropA, PropB>>),
      JobSpecOf(KD, NoneId, <<EmptyMap, PropA>>) }

NoResultFile == [exists |-> FALSE, ok |-> TRUE, ctxs |-> <<>>]
BadResultFile == [exists |-> TRUE, ok |-> FALSE, ctxs |-> <<>>]
ResultFile(ctxs) == [exists |-> TRUE, ok |-> TRUE, ctxs |-> ctxs]

DevA == [status |-> "ok", model |-> "mA", fwrev |-> "fA", size |-> 1]
DevErr == [status |-> "err", model |-> "", fwrev |-> "", size |-> 0]
NoBenchFile == [status |-> "enoent", bench |-> DefaultBench]
OtherBenchFile ==
    [status |-> "ok", bench |-> BenchKnobs("mB", "fA", 1, 1, "p1", "p1")]
SysOn == [enable |-> TRUE, model |-> "p1", qos |-> "p1"]
SysOff == [enable |-> FALSE, model |-> "dfl", qos |-> "dfl"]

\* the calibration inputs of a run: <<study, load, dev, from_sys, sys>>
RunPrepCases ==
    { <<TRUE, NoBenchFile, DevA, FALSE, SysOff>>,
      <<FALSE, NoBenchFile, DevA, FALSE, SysOff>>,
      <<FALSE, NoBenchFile, DevA, TRUE, SysOn>>,
      <<FALSE, NoBenchFile, DevA, TRUE, SysOff>>,
      <<FALSE, OtherBenchFile, DevA, FALSE, SysOff>>,
      <<FALSE, NoBenchFile, DevErr, FALSE, SysOff>> }

PrepFixed ==
    /\ b_pc = "idle"
    /\ b_load = NoBenchFile
    /\ b_dev = DevA
    /\ b_from_sys = FALSE
    /\ b_sys = SysOff
    /\ b_result = PrepNone

InitRun ==
    /\ MainStart
    /\ m_mode = "Run"
    /\ \E c \in RunPrepCases :
          /\ m_study = c[1]
          /\ b_load = c[2]
          /\ b_dev = c[3]
          /\ b_from_sys = c[4]
          /\ b_sys = c[5]
    /\ b_pc = "idle"
    /\ b_result = PrepNone
    /\ m_args_updated \in BOOLEAN
    /\ m_keep_reports \in BOOLEAN
    /\ m_clear_reports \in BOOLEAN
    /\ m_rep_retention \in 0..MaxRetention
    /\ m_job_specs \in BoundedSeq(RunSpecs, MaxJobs)
    /\ m_result_file \in {NoResultFile, BadResultFile,
                          ResultFile(<<JobCtx(JobSpecOf(KA, NoneId, <<EmptyMap>>), TRUE)>>)}

InitFormat ==
    /\ MainStart
    /\ m_mode \in {"Format", "Summary"}
    /\ PrepFixed
    /\ m_study = FALSE
    /\ m_args_updated \in BOOLEAN
    /\ m_keep_reports = FALSE
    /\ m_clear_reports = FALSE
    /\ m_rep_retention = 0
    /\ m_job_specs \in BoundedSeq(FormatSpecs, MaxFmtSpecs)
    /\ m_result_file \in {NoResultFile, BadResultFile}
                            \cup {ResultFile(c) : c \in BoundedSeq(StoredCtxs, MaxStored)}

Next ==
    \/ MainLoad
    \/ DoRunPrep
    \/ DoRunLock
    \/ DoRunLink
    \/ DoRunLinked
    \/ DoRunCommit
    \/ CleanUpSpawn
    \/ CleanUpExit
    \/ CleanUpSkip
    \/ DoRunDrop
    \/ RunJctxStart
    \/ RunJctxEnd
    \/ DoRunReturn
    \/ DoFormatSwap
    \/ DoFormatAll
    \/ DoFormatSelect
    \/ DoFormatSelected
    \/ DoFormatPrint
    \/ DoFormatCommit

----------------------------------------------------------------------------
(* Args::parse_job_spec as a function, and Args::process_cmdline *)

RECURSIVE ParseLoop(_, _, _, _)
\* lines 78-104 from token i on, then lines 106-108
ParseLoop(toks, i, id, props) ==
    IF i > Len(toks) THEN [id |-> id, props |-> DropTrailing(props)]
    ELSE IF Len(toks[i]) = 0 THEN ParseLoop(toks, i + 1, id, OnSeparator(props))
    ELSE IF KeyIsId(SplitKv(toks[i])[1])
    THEN ParseLoop(toks, i + 1, SomeId(SplitKv(toks[i])[2]), props)
    ELSE ParseLoop(toks, i + 1, id,
                   OnProp(props, SplitKv(toks[i])[1], SplitKv(toks[i])[2]))

\* lines 67-115
ParseJobSpec(text) ==
    LET toks == Split(text, ":")
    IN  IF Len(toks) = 0 THEN [status |-> "err", spec |-> NoJobSpec]
        ELSE LET r == ParseLoop(toks, 2, NoneId, <<EmptyMap>>)
             IN  [status |-> "ok", spec |-> JobSpecNew(toks[1], r.id, r.props)]

\* a positional jobspec argument
ArgSpec(text) == [type |-> "jobspec", text |-> text, ok |-> TRUE, specs |-> <<>>]

\* a --job argument: the file loads into specs, or fails to load
ArgFile(name, ok, specs) == [type |-> "jobfile", text |-> name, ok |-> ok, specs |-> specs]

\* the arguments the command lines are made of
CmdArgs ==
    { ArgSpec(KA),
      ArgSpec(Join(<<KB, <<"a", "=", "1">> >>)),
      ArgSpec(<<>>),
      ArgFile(<<"f">>, TRUE, << JobSpecOf(KC, NoneId, <<EmptyMap>>),
                                JobSpecOf(KA, SomeId(<<"x">>), <<EmptyMap>>) >>),
      ArgFile(<<"e">>, TRUE, <<>>),
      ArgFile(<<"g">>, FALSE, <<>>) }

\* Self::load_jobfile (lines 117-119)
LoadJobfile(arg) ==
    IF arg.ok THEN [status |-> "ok", specs |-> arg.specs]
    ELSE [status |-> "err", specs |-> <<>>]

\* the next position after i holding an argument of the type, 0 if none
NextArg(argv, type, i) ==
    IF \E k \in (i + 1)..Len(argv) : argv[k].type = type
    THEN CHOOSE k \in (i + 1)..Len(argv) :
            /\ argv[k].type = type
            /\ \A j \in (i + 1)..(k - 1) : argv[j].type # type
    ELSE 0

RECURSIVE ConcatDescending(_, _)
\* the values appended from the largest key below hi downwards
ConcatDescending(jobsets, hi) ==
    IF \A k \in DOMAIN jobsets : k >= hi THEN <<>>
    ELSE LET k == CHOOSE x \in DOMAIN jobsets :
                     x < hi /\ \A y \in DOMAIN jobsets : y < hi => y <= x
         IN  jobsets[k] \o ConcatDescending(jobsets, k)

\* (variant of ConcatValues: the job sets are appended in descending key order)
ConcatValuesDescending(jobsets, lo) ==
    ConcatDescending(jobsets, Cardinality(DOMAIN jobsets) + MaxArgs + 2)

RECURSIVE ConcatValues(_, _)
\* jobsets.values_mut() appended in key order, from the smallest key above lo
ConcatValues(jobsets, lo) ==
    IF \A k \in DOMAIN jobsets : k <= lo THEN <<>>
    ELSE LET k == CHOOSE x \in DOMAIN jobsets :
                     x > lo /\ \A y \in DOMAIN jobsets : y > lo => x <= y
         IN  jobsets[k] \o ConcatValues(jobsets, k)

CmdIdle ==
    /\ c_pc = "idle"
    /\ c_argv = <<>>
    /\ c_job_specs = <<>>
    /\ c_jobsets = <<>>
    /\ c_i = 0
    /\ c_errors = <<>>
    /\ c_updated = FALSE

\* lines 209-211: the run subcommand matched, jobsets is empty
CmdInit ==
    /\ c_pc = "jobspecs"
    /\ c_argv \in BoundedSeq(CmdArgs, MaxArgs)
    /\ c_job_specs \in {<<>>, <<JobSpecOf(KB, NoneId, <<EmptyMap>>)>>}
    /\ c_jobsets = <<>>
    /\ c_i = 0
    /\ c_errors = <<>>
    /\ c_updated = FALSE

\* (variant of OnInputError: the error is reported and the loop goes on)
OnInputErrorGoOn(pc) == pc

\* lines 220-223, 237-240: error!() and exit(1)
OnInputError(pc) == "exited"

\* lines 215-225: one positional jobspec
CmdJobspec ==
    /\ c_pc = "jobspecs"
    /\ NextArg(c_argv, "jobspec", c_i) # 0
    /\ LET idx == NextArg(c_argv, "jobspec", c_i)
           res == ParseJobSpec(c_argv[idx].text)
       IN  /\ c_i' = idx
           /\ IF res.status = "ok"
              THEN /\ c_jobsets' = MapInsert(c_jobsets, idx, <<res.spec>>)
                   /\ UNCHANGED <<c_pc, c_errors>>
              ELSE /\ c_errors' = Append(c_errors, idx)
                   /\ c_pc' = OnInputError(c_pc)
                   /\ UNCHANGED c_jobsets
    /\ UNCHANGED <<c_argv, c_job_specs, c_updated, notCmd>>

\* lines 213-228: no positional jobspec is left
CmdJobspecsDone ==
    /\ c_pc = "jobspecs"
    /\ NextArg(c_argv, "jobspec", c_i) = 0
    /\ c_i' = 0
    /\ c_pc' = "jobfiles"
    /\ UNCHANGED <<c_argv, c_job_specs, c_jobsets, c_errors, c_updated, notCmd>>

\* lines 232-242: one --job file
CmdJobfile ==
    /\ c_pc = "jobfiles"
    /\ NextArg(c_argv, "jobfile", c_i) # 0
    /\ LET idx == NextArg(c_argv, "jobfile", c_i)
           res == LoadJobfile(c_argv[idx])
       IN  /\ c_i' = idx
           /\ IF res.status = "ok"
              THEN /\ c_jobsets' = MapInsert(c_jobsets, idx, res.specs)
                   /\ UNCHANGED <<c_pc, c_errors>>
              ELSE /\ c_errors' = Append(c_errors, idx)
                   /\ c_pc' = OnInputError(c_pc)
                   /\ UNCHANGED c_jobsets
    /\ UNCHANGED <<c_argv, c_job_specs, c_updated, notCmd>>

\* lines 230-245: no --job file is left
CmdJobfilesDone ==
    /\ c_pc = "jobfiles"
    /\ NextArg(c_argv, "jobfile", c_i) = 0
    /\ c_pc' = "merge"
    /\ UNCHANGED <<c_argv, c_job_specs, c_jobsets, c_i, c_errors, c_updated, notCmd>>

\* lines 247-253
CmdMerge ==
    /\ c_pc = "merge"
    /\ IF MapLen(c_jobsets) > 0
       THEN /\ c_job_specs' = ConcatValues(c_jobsets, 0)
            /\ c_updated' = TRUE
       ELSE UNCHANGED <<c_job_specs, c_updated>>
    /\ c_pc' = "done"
    /\ UNCHANGED <<c_argv, c_jobsets, c_i, c_errors, notCmd>>

CmdNext ==
    \/ CmdJobspec
    \/ CmdJobspecsDone
    \/ CmdJobfile
    \/ CmdJobfilesDone
    \/ CmdMerge

----------------------------------------------------------------------------
(* Args::parse_job_spec, step by step *)

ParseIdle ==
    /\ p_pc = "idle"
    /\ p_text = <<>>
    /\ p_toks = <<>>
    /\ p_i = 0
    /\ p_kind = <<>>
    /\ p_id = NoneId
    /\ p_props = <<>>
    /\ p_result = [status |-> "none", spec |-> NoJobSpec]

ParseInit ==
    /\ p_pc = "start"
    /\ p_text \in SpecTexts
    /\ p_toks = <<>>
    /\ p_i = 0
    /\ p_kind = <<>>
    /\ p_id = NoneId
    /\ p_props = <<>>
    /\ p_result = [status |-> "none", spec |-> NoJobSpec]

\* lines 68-76: split, take the kind, set up id and properties
ParseStart ==
    /\ p_pc = "start"
    /\ LET toks == Split(p_text, ":")
       IN  /\ p_toks' = toks
           /\ IF Len(toks) = 0
              THEN /\ p_pc' = "done"
                   /\ p_result' = [status |-> "err", spec |-> NoJobSpec]
                   /\ UNCHANGED <<p_i, p_kind, p_id, p_props>>
              ELSE /\ p_pc' = "loop"
                   /\ p_i' = 1
                   /\ p_kind' = toks[1]
                   /\ p_id' = NoneId
                   /\ p_props' = <<EmptyMap>>
                   /\ UNCHANGED p_result
    /\ UNCHANGED <<p_text, notParse>>

NextTok == p_toks[p_i + 1]

\* lines 79-87
ParseSeparator ==
    /\ p_pc = "loop"
    /\ p_i < Len(p_toks)
    /\ Len(NextTok) = 0
    /\ p_props' = OnSeparator(p_props)
    /\ p_i' = p_i + 1
    /\ UNCHANGED <<p_pc, p_text, p_toks, p_kind, p_id, p_result, notParse>>

\* lines 90-96: the key is "id"
ParseId ==
    /\ p_pc = "loop"
    /\ p_i < Len(p_toks)
    /\ Len(NextTok) > 0
    /\ KeyIsId(SplitKv(NextTok)[1])
    /\ p_id' = SomeId(SplitKv(NextTok)[2])
    /\ p_i' = p_i + 1
    /\ UNCHANGED <<p_pc, p_text, p_toks, p_kind, p_props, p_result, notParse>>

\* lines 90-102: any other key
ParseProp ==
    /\ p_pc = "loop"
    /\ p_i < Len(p_toks)
    /\ Len(NextTok) > 0
    /\ ~KeyIsId(SplitKv(NextTok)[1])
    /\ p_props' = OnProp(p_props, SplitKv(NextTok)[1], SplitKv(NextTok)[2])
    /\ p_i' = p_i + 1
    /\ UNCHANGED <<p_pc, p_text, p_toks, p_kind, p_id, p_result, notParse>>

\* lines 106-114
ParseFinish ==
    /\ p_pc = "loop"
    /\ p_i = Len(p_toks)
    /\ p_props' = DropTrailing(p_props)
    /\ p_result' = [status |-> "ok",
                    spec |-> JobSpecNew(p_kind, p_id, DropTrailing(p_props))]
    /\ p_pc' = "done"
    /\ UNCHANGED <<p_text, p_toks, p_i, p_kind, p_id, notParse>>

ParseNext ==
    \/ ParseStart
    \/ ParseSeparator
    \/ ParseId
    \/ ParseProp
    \/ ParseFinish

InitParse == ParseInit /\ PrepIdle /\ MainIdle /\ CmdIdle

SpecParse == InitParse /\ [][ParseNext]_vars

----------------------------------------------------------------------------
(* Rendering a JobSpec as text and parsing the text *)

\* property groups of the JobSpecs that are rendered
PropAB == MapInsert(PropA, <<"b">>, <<"2">>)
PropEq == MapInsert(EmptyMap, <<"a">>, <<"1", "=", "2">>)
PropColon == MapInsert(EmptyMap, <<"a">>, <<"1", ":", "2">>)
PropIdKey == MapInsert(EmptyMap, IdKey, <<"x">>)
RenderGroups == {EmptyMap, PropA, PropB, PropAB, PropEq, PropColon, PropIdKey}

\* the JobSpecs rendered: a kind, an optional id, one or more groups
RenderSpecs ==
    {JobSpecNew(KA, id, props) :
        id \in {NoneId, SomeId(<<"x">>)},
        props \in BoundedSeq(RenderGroups, MaxGroups) \ {<<>>}}

\* the keys of the groups above in the order a BTreeMap iterates them
KeyOrder == <<<<"a">>, <<"b">>, IdKey>>

\* the key=value tokens of one group, in key order
GroupToks(m) ==
    LET F[k \in 0..Len(KeyOrder)] ==
          IF k = 0 THEN <<>>
          ELSE IF KeyOrder[k] \in DOMAIN m
               THEN Append(F[k - 1], KeyOrder[k] \o <<"=">> \o m[KeyOrder[k]])
               ELSE F[k - 1]
    IN  F[Len(KeyOrder)]

\* the tokens of the groups from the g-th on, an empty token before each
\* group but the first
RECURSIVE GroupsToks(_, _)
GroupsToks(props, g) ==
    IF g > Len(props) THEN <<>>
    ELSE (IF g > 1 THEN << <<>> >> ELSE <<>>)
            \o GroupToks(props[g]) \o GroupsToks(props, g + 1)

\* the canonical text: kind, id=<id> when there is one, then the groups,
\* all tokens separated by ':'
Render(js) ==
    Join(<<js.kind>>
           \o (IF js.id.some THEN <<IdKey \o <<"=">> \o js.id.v>> ELSE <<>>)
           \o GroupsToks(js.props, 1))

\* parse_job_spec called on the rendering of a JobSpec
RenderInit ==
    /\ p_pc = "start"
    /\ p_text \in {Render(js) : js \in RenderSpecs}
    /\ p_toks = <<>>
    /\ p_i = 0
    /\ p_kind = <<>>
    /\ p_id = NoneId
    /\ p_props = <<>>
    /\ p_result = [status |-> "none", spec |-> NoJobSpec]

InitRoundTrip == RenderInit /\ PrepIdle /\ MainIdle /\ CmdIdle

SpecRoundTrip == InitRoundTrip /\ [][ParseNext]_vars

InitPrep == PrepInit /\ ParseIdle /\ MainIdle /\ CmdIdle

SpecPrep == InitPrep /\ [][PrepNext]_vars

Init == ParseIdle /\ CmdIdle /\ (InitRun \/ InitFormat)

Spec == Init /\ [][Next]_vars

InitCmdline == CmdInit /\ ParseIdle /\ PrepIdle /\ MainIdle

SpecCmdline == InitCmdline /\ [][CmdNext]_vars

----------------------------------------------------------------------------
(* Properties of parse_job_spec *)

LastMap(props) == props[Len(props)]

\* the iterator is about to yield an empty token
AtSeparator == p_pc = "loop" /\ p_i < Len(p_toks) /\ Len(p_toks[p_i + 1]) = 0

\* C2 (as stated): in every parser state an empty token starts a new group
\* only if the last group holds at least one property; otherwise it is
\* absorbed and the number of groups stays the same.
C2_SeparatorOnlyAfterNonEmpty ==
    [][(AtSeparator /\ p_i' = p_i + 1) =>
         IF Cardinality(DOMAIN LastMap(p_props)) >= 1
         THEN Len(p_props') = Len(p_props) + 1
         ELSE Len(p_props') = Len(p_props)]_vars

\* C2 (amended): an empty token starts a new, empty group if there is only
\* one group so far (the first group may stay empty) or the last group holds
\* at least one property; otherwise it is absorbed and the groups stay as
\* they are.
C2_SeparatorRule ==
    [][(AtSeparator /\ p_i' = p_i + 1) =>
         IF Len(p_props) = 1 \/ Cardinality(DOMAIN LastMap(p_props)) >= 1
         THEN p_props' = Append(p_props, <<>>)
         ELSE p_props' = p_props]_vars

\* a separator has just been absorbed: two separators in a row behind the
\* first group
C2_Witness ==
    /\ p_pc = "loop"
    /\ p_i >= 3
    /\ p_toks[p_i] = <<>>
    /\ p_toks[p_i - 1] = <<>>
    /\ Len(p_props) = 2
    /\ Cardinality(DOMAIN LastMap(p_props)) = 0

\* is tok an id token: non-empty, and the text before its first '=' is "id"
IsIdTok(tok) ==
    /\ Len(tok) >= 2
    /\ tok[1] = "i"
    /\ tok[2] = "d"
    /\ (Len(tok) = 2 \/ tok[3] = "=")

\* the text after "id=" ("" when the token is only "id")
IdTokVal(tok) == IF Len(tok) <= 3 THEN <<>> ELSE SubSeq(tok, 4, Len(tok))

RECURSIVE LastIdOf(_, _)
\* the id the tokens 2..n set: the value of the last id token, none without one
LastIdOf(toks, n) ==
    IF n < 2 THEN [some |-> FALSE, v |-> <<>>]
    ELSE IF IsIdTok(toks[n]) THEN [some |-> TRUE, v |-> IdTokVal(toks[n])]
    ELSE LastIdOf(toks, n - 1)

\* the number of non-id, non-empty tokens among tokens 2..n
RECURSIVE NrPropToks(_, _)
NrPropToks(toks, n) ==
    IF n < 2 THEN 0
    ELSE NrPropToks(toks, n - 1)
            + (IF Len(toks[n]) > 0 /\ ~IsIdTok(toks[n]) THEN 1 ELSE 0)

ExpectedIdGroups ==
    [kind |-> <<"f">>,
     id |-> [some |-> TRUE, v |-> <<"x">>],
     props |-> << <<>>,
                  [k \in {<<"a">>} |-> <<"1">>],
                  [k \in {<<"b">>} |-> <<"2">>] >>]

\* C3: KIND:id=X::a=1::b=2 parses to kind KIND, id X, props [{}, {a:1}, {b:2}];
\* for every token sequence the id is the value of the last id token seen,
\* no group ever holds the key "id", a leading segment of only id tokens
\* leaves the first group empty, and consuming an id token changes no group.
C3_IdToken ==
    /\ [](/\ (p_pc = "done" /\ p_text = ExampleIdGroups) =>
                (p_result.status = "ok" /\ p_result.spec = ExpectedIdGroups)
          /\ p_pc = "loop" =>
                /\ p_id = LastIdOf(p_toks, p_i)
                /\ \A g \in 1..Len(p_props) : <<"i", "d">> \notin DOMAIN p_props[g]
                /\ NrPropToks(p_toks, p_i) = 0 =>
                       Cardinality(DOMAIN p_props[1]) = 0
          /\ p_pc = "done" /\ p_result.status = "ok" =>
                /\ p_result.spec.id = LastIdOf(p_toks, Len(p_toks))
                /\ \A g \in 1..Len(p_result.spec.props) :
                       <<"i", "d">> \notin DOMAIN p_result.spec.props[g])
    /\ [][(p_pc = "loop" /\ p_i < Len(p_toks) /\ IsIdTok(p_toks[p_i + 1])
              /\ p_i' = p_i + 1) => p_props' = p_props]_vars

\* the example has been parsed: an id, and an empty first group before two more
C3_Witness ==
    /\ p_pc = "done"
    /\ p_text = ExampleIdGroups
    /\ p_result.spec.id.some
    /\ Len(p_result.spec.props) = 3
    /\ Cardinality(DOMAIN p_result.spec.props[1]) = 0

FirstTokenEmpty(text) == Len(text) = 0 \/ text[1] = ":"

\* C4: parse rejects a spec whose first ':'-separated token is empty or
\* missing: it returns an error and no JobSpec.
C4_RejectsMissingKind ==
    (p_pc = "done" /\ FirstTokenEmpty(p_text)) => p_result.status = "err"

----------------------------------------------------------------------------
(* Properties of prep_base_bench *)

\* the calibration data prepare starts from
Loaded == IF b_load.status = "ok" THEN b_load.bench
          ELSE [iocost_dev_model |-> "", iocost_dev_fwrev |-> "",
                iocost_dev_size |-> 0, iocost_seq |-> 0,
                iocost_model |-> "dfl", iocost_qos |-> "dfl"]

ModelDiffers == Loaded.iocost_dev_model # "" /\ Loaded.iocost_dev_model # b_dev.model
FwrevDiffers == Loaded.iocost_dev_fwrev # "" /\ Loaded.iocost_dev_fwrev # b_dev.fwrev
SizeDiffers == Loaded.iocost_dev_size # 0 /\ Loaded.iocost_dev_size # b_dev.size

EmptyIdentity ==
    /\ Loaded.iocost_dev_model = ""
    /\ Loaded.iocost_dev_fwrev = ""
    /\ Loaded.iocost_dev_size = 0

Prepared == b_pc = "done" /\ b_dev.status = "ok"

\* C1: when a set identity field (model, firmware revision or size) of the
\* loaded calibration data differs from the detected one, prepare returns an
\* error, not calibration data, and its calibration data is still the loaded
\* one, with or without live sourcing.
C1_MismatchIsFatal ==
    (Prepared /\ (ModelDiffers \/ FwrevDiffers \/ SizeDiffers)) =>
        /\ b_result.status = "err"
        /\ b_result.err \in {"model", "fwrev", "size"}
        /\ b_result.bench = Loaded

\* only the firmware revision differs, live sourcing is requested and available
C1_Witness ==
    /\ Prepared
    /\ FwrevDiffers /\ ~ModelDiffers /\ ~SizeDiffers
    /\ Loaded.iocost_dev_model # "" /\ Loaded.iocost_dev_size # 0
    /\ b_from_sys /\ b_sys.enable
    /\ b_result.status = "err"

\* C7: with live sourcing requested (and the identity check passed), if
\* iocost is enabled prepare returns data with the live model and QoS and a
\* sequence number strictly greater than the loaded one; if iocost is not
\* enabled prepare fails.
C7_LiveSourcingBumpsSeq ==
    (Prepared /\ b_from_sys /\ ~(ModelDiffers \/ FwrevDiffers \/ SizeDiffers)) =>
        IF b_sys.enable
        THEN /\ b_result.status = "ok"
             /\ b_result.bench.iocost_model = b_sys.model
             /\ b_result.bench.iocost_qos = b_sys.qos
             /\ b_result.bench.iocost_seq > Loaded.iocost_seq
        ELSE b_result.status = "err"

\* C8 (as stated): from default calibration data prepare always succeeds,
\* whatever the detected identity, the live-sourcing flag and the snapshot,
\* and returns exactly the detected identity.
C8_DefaultAlwaysSucceeds ==
    (Prepared /\ (b_load.status # "ok" \/ EmptyIdentity)) =>
        /\ b_result.status = "ok"
        /\ b_result.bench.iocost_dev_model = b_dev.model
        /\ b_result.bench.iocost_dev_fwrev = b_dev.fwrev
        /\ b_result.bench.iocost_dev_size = b_dev.size

\* C8 (amended): from default calibration data prepare succeeds for every
\* detected identity unless live sourcing is requested while iocost is not
\* enabled, which is the one case where it fails; when it succeeds the
\* returned data carries exactly the detected identity.
C8_DefaultSucceedsUnlessLiveDisabled ==
    (Prepared /\ (b_load.status # "ok" \/ EmptyIdentity)) =>
        IF b_from_sys /\ ~b_sys.enable
        THEN b_result.status = "err" /\ b_result.err = "disabled"
        ELSE /\ b_result.status = "ok"
             /\ b_result.bench.iocost_dev_model = b_dev.model
             /\ b_result.bench.iocost_dev_fwrev = b_dev.fwrev
             /\ b_result.bench.iocost_dev_size = b_dev.size

\* the bench file could not be loaded, live sourcing is used, prepare succeeded
C8_Witness ==
    /\ Prepared
    /\ b_load.status = "error"
    /\ b_from_sys /\ b_sys.enable
    /\ b_result.status = "ok"
    /\ b_result.warned
    /\ b_result.bench.iocost_dev_size = b_dev.size

----------------------------------------------------------------------------
(* Properties of do_run, commit_args and clean_up_report_files *)

\* C5: in a run invocation the pending jobs are run one at a time in the
\* order of the job specs, and a failed run aborts the invocation: the failed
\* job is the last one ever started.
C5_InOrderAbortOnFailure ==
    m_mode = "Run" =>
        /\ \A j \in 1..Len(m_pending) : m_pending[j].spec = m_job_specs[j]
        /\ \A j \in 1..Len(m_started) : m_started[j] = j
        /\ Len(m_started) <= Len(m_pending)
        /\ Len(m_started) - Len(m_finished) \in {0, 1}
        /\ (Len(m_started) - Len(m_finished) = 1) <=> (m_agent = "job")
        /\ \A j \in 1..Len(m_finished) :
              ~m_finished[j] => (Len(m_started) = j /\ m_pc = "panicked")

\* the second of three pending jobs has failed
C5_Witness ==
    /\ m_mode = "Run"
    /\ Len(m_pending) = 3
    /\ m_finished = <<TRUE, FALSE>>
    /\ m_started = <<1, 2>>
    /\ m_pc = "panicked"

\* C6 (as stated): in a run invocation the args file is written only after
\* all pending job runs have finished.
C6_CommitAfterAllRuns ==
    (m_mode = "Run" /\ m_written > 0) => Len(m_finished) = Len(m_pending)

\* C6 (amended): in a run invocation changed configuration is committed (the
\* args file is written, once) after all job specs are linked and before the
\* housekeeping pass and any job run: no cleanup or job subprocess has been
\* started when the commit happens, and none starts with a change left
\* uncommitted; a format-only invocation commits after rendering, with no
\* job run; an unchanged configuration is never written.
C6_CommitBeforeAgent ==
    /\ [](/\ m_written <= 1
          /\ ~m_args_updated => m_written = 0
          /\ (m_mode = "Run" /\ m_written = 1) =>
                Len(m_pending) = Len(m_job_specs)
          /\ (m_mode = "Run" /\ m_args_updated
                /\ (Len(m_cleanups) > 0 \/ Len(m_started) > 0)) => m_written = 1
          /\ (m_mode # "Run" /\ m_written = 1) =>
                /\ Len(m_started) = 0 /\ Len(m_cleanups) = 0
                /\ m_printed = m_to_format)
    /\ [][m_written' # m_written =>
            /\ m_written' = m_written + 1
            /\ m_agent = "none"
            /\ Len(m_cleanups) = 0
            /\ Len(m_started) = 0]_vars

\* a job runs after the changed configuration has been written
C6_Witness ==
    /\ m_mode = "Run"
    /\ m_args_updated
    /\ m_written = 1
    /\ m_agent = "job"
    /\ Len(m_finished) = 0

\* C9: every cleanup invocation gets, as coarse (1-minute) retention, the
\* larger of the configured retention and the compiled default, hence a value
\* >= both, and the configured retention unchanged as fine-grained retention.
C9_CoarseRetentionIsMax ==
    \A j \in 1..Len(m_cleanups) :
        /\ m_cleanups[j].rep_1min_retention >= m_rep_retention
        /\ m_cleanups[j].rep_1min_retention >= Rep1MinRetentionDfl
        /\ m_cleanups[j].rep_1min_retention \in {m_rep_retention, Rep1MinRetentionDfl}
        /\ m_cleanups[j].rep_retention = m_rep_retention

\* cleanup was invoked with a configured retention above the default
C9_Witness ==
    /\ Len(m_cleanups) = 1
    /\ m_rep_retention > Rep1MinRetentionDfl
    /\ m_cleanups[1].rep_1min_retention = m_rep_retention

----------------------------------------------------------------------------
(* Properties of process_cmdline *)

\* is the argument at position k malformed: a job file that does not load,
\* or a job spec that does not parse
Malformed(k) ==
    IF c_argv[k].type = "jobfile" THEN ~c_argv[k].ok
    ELSE Len(c_argv[k].text) = 0 \/ c_argv[k].text[1] = ":"

Fails(k) ==
    IF c_argv[k].type = "jobfile" THEN ~c_argv[k].ok
    ELSE ParseJobSpec(c_argv[k].text).status = "err"

\* is position j processed before position k: job specs come before job
\* files, and each kind goes by command-line position
Before(j, k) ==
    \/ c_argv[j].type = c_argv[k].type /\ j < k
    \/ c_argv[j].type = "jobspec" /\ c_argv[k].type = "jobfile"

SpecsOfArg(k) ==
    IF c_argv[k].type = "jobfile" THEN c_argv[k].specs
    ELSE <<ParseJobSpec(c_argv[k].text).spec>>

RECURSIVE SpecsUpTo(_)
\* the specs of the arguments at positions 1..k, in command-line order
SpecsUpTo(k) == IF k = 0 THEN <<>> ELSE SpecsUpTo(k - 1) \o SpecsOfArg(k)

\* C11: the job list the run subcommand leaves is the concatenation of every
\* source's specs in ascending command-line position, whatever the source
\* type, each job file's specs contiguous and in file order; with at least
\* one source the previous list is replaced, with none it stays as it was.
C11_MergedByPosition ==
    [][(c_pc = "merge" /\ c_pc' = "done") =>
         IF Len(c_argv) > 0
         THEN c_job_specs' = SpecsUpTo(Len(c_argv)) /\ c_updated'
         ELSE c_job_specs' = c_job_specs /\ c_updated' = c_updated]_vars

\* a job file given before an inline spec: its two specs come first, and the
\* previous list is gone
C11_Witness ==
    /\ c_pc = "done"
    /\ Len(c_argv) >= 2
    /\ c_argv[1].type = "jobfile" /\ Len(c_argv[1].specs) = 2
    /\ c_argv[2].type = "jobspec"
    /\ Len(c_job_specs) >= 3
    /\ c_job_specs[1] = c_argv[1].specs[1]
    /\ c_job_specs[2] = c_argv[1].specs[2]
    /\ c_job_specs[3].kind = <<"k", "a">>

(***************************************************************************)
(* Properties of do_format                                                 *)
(***************************************************************************)

\* format or summary mode entered with a readable result file and no spec
FormatsEverything ==
    /\ m_mode \in {"Format", "Summary"}
    /\ Len(m_job_specs) = 0
    /\ m_result_file.exists /\ m_result_file.ok

\* what rendering all of the result file's contexts produces
RenderedAll ==
    [k \in 1..Len(m_result_file.ctxs) |->
        [jctx |-> m_result_file.ctxs[k], props |-> <<EmptyMap>>]]

\* C12: in format or summary mode with no requested spec and a result file
\* of N contexts, the contexts rendered so far are always the first ones of
\* the file in stored order, each with one empty property group, and when
\* the invocation completes all N have been rendered, none twice or skipped.
C12_FormatAllInOrder ==
    FormatsEverything =>
       /\ Len(m_printed) <= Len(RenderedAll)
       /\ m_printed = SubSeq(RenderedAll, 1, Len(m_printed))
       /\ m_pc # "exited"
       /\ m_pc = "done" => m_printed = RenderedAll

\* two different stored contexts rendered, in stored order
C12_Witness ==
    /\ FormatsEverything
    /\ m_pc = "done"
    /\ Len(m_result_file.ctxs) = 2
    /\ m_result_file.ctxs[1] # m_result_file.ctxs[2]
    /\ Len(m_printed) = 2
    /\ m_printed[1].jctx = m_result_file.ctxs[1]

\* the requested spec do_format is about to look at, and whether it has a match
Selecting ==
    /\ m_pc = "fmt_select"
    /\ m_i < Len(m_job_specs)
    /\ FirstMatch(m_jctxs, m_job_specs[m_i + 1]) # 0

\* the spec carries a property in some group
HasAnyProp(spec) == \E g \in 1..Len(spec.props) : MapLen(spec.props[g]) > 0

\* what the rejection rule asks for: properties anywhere for a kind without
\* format properties, or several groups for a kind without property sets
MustReject(spec) ==
    \/ ~TakesFormatProps(spec.kind) /\ HasAnyProp(spec)
    \/ ~TakesFormatPropsets(spec.kind) /\ Len(spec.props) > 1

\* C13: a requested spec with a matching context is rejected (the process
\* exits) exactly when its kind takes no format properties and some group of
\* the spec holds a property, or its kind takes no property sets and the
\* spec has more than one group; otherwise it is accepted and selected.
C13_RejectsUnsupportedProps ==
    [][Selecting =>
         IF MustReject(m_job_specs[m_i + 1])
         THEN m_pc' = "exited"
         ELSE /\ m_pc' = "fmt_select"
              /\ Len(m_to_format') = Len(m_to_format) + 1]_vars

\* do_format is about to look at its next requested spec
SelectStep == m_pc = "fmt_select" /\ m_i < Len(m_job_specs)

\* positions of the remaining stored contexts with the spec's kind and id
MatchesOf(spec) ==
    {k \in 1..Len(m_jctxs) :
        m_jctxs[k].spec.kind = spec.kind /\ m_jctxs[k].spec.id = spec.id}

\* the store after the step is the store before it without position k
PoppedAt(k) ==
    /\ Len(m_jctxs') = Len(m_jctxs) - 1
    /\ \A j \in 1..(k - 1) : m_jctxs'[j] = m_jctxs[j]
    /\ \A j \in k..(Len(m_jctxs) - 1) : m_jctxs'[j] = m_jctxs[j + 1]

\* C14: popping the match of a requested spec removes exactly the first
\* stored context with the spec's kind and id and hands that one to the
\* caller, every other entry staying in place and order; with no match the
\* store is unchanged and the invocation ends with a fatal error.  So the
\* contexts selected and the contexts left always add up to the stored ones:
\* no context is selected by two specs.
C14_PopFirstMatchOnly ==
    /\ [][SelectStep =>
            LET spec == m_job_specs[m_i + 1]
                ms == MatchesOf(spec)
            IN  IF ms = {}
                THEN /\ m_pc' = "exited"
                     /\ m_jctxs' = m_jctxs
                     /\ m_to_format' = m_to_format
                ELSE LET k == CHOOSE x \in ms : \A y \in ms : x <= y
                     IN  /\ PoppedAt(k)
                         /\ m_pc' # "exited" =>
                               m_to_format' =
                                  Append(m_to_format,
                                         [jctx |-> m_jctxs[k],
                                          props |-> spec.props])]_vars
    /\ [](m_pc = "fmt_select" =>
             Len(m_to_format) + Len(m_jctxs) = Len(m_result_file.ctxs))

\* two different stored contexts match the first spec: the first one was
\* selected, the second one is what the store still holds
C14_Witness ==
    /\ m_pc = "fmt_select"
    /\ m_i = 1
    /\ Len(m_result_file.ctxs) = 2
    /\ m_result_file.ctxs[1] # m_result_file.ctxs[2]
    /\ m_result_file.ctxs[2].spec.kind = m_job_specs[1].kind
    /\ m_result_file.ctxs[2].spec.id = m_job_specs[1].id
    /\ Len(m_to_format) = 1
    /\ m_to_format[1].jctx = m_result_file.ctxs[1]
    /\ m_jctxs = <<m_result_file.ctxs[2]>>

(***************************************************************************)
(* Properties of rendering and parsing back                                *)
(***************************************************************************)

\* does the text contain the character?
Has(text, c) == \E i \in 1..Len(text) : text[i] = c

\* a JobSpec the parser can give back: no group other than the first is
\* empty, no property is keyed "id", no key holds '=' and no text holds ':'
Renderable(js) ==
    /\ ~Has(js.kind, ":") /\ ~Has(js.id.v, ":")
    /\ \A g \in 1..Len(js.props) :
          /\ g > 1 => MapLen(js.props[g]) > 0
          /\ \A k \in DOMAIN js.props[g] :
                /\ k # <<"i", "d">>
                /\ ~Has(k, ":") /\ ~Has(k, "=")
                /\ ~Has(js.props[g][k], ":")

\* the JobSpecs whose rendering is the text being parsed
RenderedFrom == {js \in RenderSpecs : Render(js) = p_text}

\* C15 as stated: parsing the rendering of any rendered JobSpec gives it back
C15_RoundTripAny ==
    p_pc = "done" =>
       \A js \in RenderedFrom : p_result.status = "ok" /\ p_result.spec = js

\* C15: parsing the canonical rendering of a JobSpec gives back its kind, its
\* id and its property groups in order, provided no group other than the
\* first is empty, no property is keyed "id" and the texts hold no separator.
C15_RoundTripRenderable ==
    p_pc = "done" =>
       \A js \in RenderedFrom :
          Renderable(js) => p_result.status = "ok" /\ p_result.spec = js

\* an id, an empty first group and a value with '=' in the second group came
\* back as they were
C15_Witness ==
    /\ p_pc = "done"
    /\ JobSpecNew(KA, SomeId(<<"x">>), <<EmptyMap, PropEq>>) \in RenderedFrom
    /\ p_result.spec = JobSpecNew(KA, SomeId(<<"x">>), <<EmptyMap, PropEq>>)

(***************************************************************************)
(* Properties of the job-store lock and the housekeeping pass              *)
(***************************************************************************)

\* C16 as stated: the job-store lock is never held while an agent
\* subprocess, housekeeping or job, is running
C16_LockFreeWithAnyAgent == m_agent # "none" => ~m_lock

\* C16: in run mode the job-store lock is taken to build the pending-job
\* list and stays held through the commit and the housekeeping pass; it is
\* released before the first job, so it is never held while a job-execution
\* subprocess is running.
C16_LockFreeWithJobAgent ==
    /\ m_agent = "job" => ~m_lock
    /\ m_pc \in {"run_jobs", "job_wait"} => ~m_lock
    /\ m_pc \in {"run_link", "run_commit", "run_cleanup", "cleanup_wait",
                 "run_drop"} => m_lock

\* a job is running without the lock, after a housekeeping pass that ran
\* under it
C16_Witness ==
    /\ m_agent = "job"
    /\ ~m_lock
    /\ Len(m_cleanups) = 1
    /\ m_warned = 0

\* do_run is past the housekeeping decision
PastCleanUp ==
    m_mode = "Run" /\ m_pc \in {"run_drop", "run_jobs", "job_wait", "done"}

\* C17: a run invocation starts the cleanup-only agent once when a job is
\* pending and keep-reports is off, and not at all otherwise, whatever
\* clear-reports says; the cleanup is over before the first job starts, and
\* its command line carries the reset flag exactly when clear-reports is on.
C17_CleanUpOnceBeforeJobs ==
    /\ Len(m_cleanups) <= 1
    /\ PastCleanUp =>
          Len(m_cleanups) =
             IF Len(m_pending) > 0 /\ ~m_keep_reports THEN 1 ELSE 0
    /\ \A k \in 1..Len(m_cleanups) :
          /\ m_cleanups[k].reset = m_clear_reports
          /\ m_cleanups[k].prepare /\ m_cleanups[k].bypass
          /\ Len(m_pending) > 0 /\ ~m_keep_reports
    /\ m_pc \in {"run_cleanup", "cleanup_wait"} \/ m_agent = "cleanup" =>
          m_started = <<>>
    /\ m_agent = "job" => m_pc = "job_wait"

\* a job runs after the one cleanup, which was told to reset
C17_Witness ==
    /\ m_pc = "job_wait"
    /\ Len(m_started) = 1
    /\ Len(m_cleanups) = 1
    /\ m_clear_reports
    /\ m_cleanups[1].reset

\* C18: a cleanup that cannot be started or exits unsuccessfully costs one
\* warning and nothing else: do_run goes on to the job loop with the pending
\* list untouched, the cleanup is not started again, and the invocation then
\* ends only by running every pending job in order or by a failing job.
C18_CleanUpFailureOnlyWarns ==
    /\ [][m_warned' > m_warned =>
             /\ m_pc' = "run_drop"
             /\ m_pending' = m_pending
             /\ Len(m_cleanups') = 1]_vars
    /\ [](m_warned > 0 =>
             /\ m_warned = 1
             /\ Len(m_cleanups) = 1
             /\ m_pc \in {"run_drop", "run_jobs", "job_wait", "done", "panicked"}
             /\ m_started = [k \in 1..Len(m_started) |-> k]
             /\ m_pc = "panicked" =>
                   /\ Len(m_finished) > 0
                   /\ ~m_finished[Len(m_finished)]
             /\ m_pc = "done" =>
                   /\ Len(m_started) = Len(m_pending)
                   /\ m_finished = [k \in 1..Len(m_pending) |-> TRUE])

\* the cleanup failed, and the two pending jobs were run all the same
C18_Witness ==
    /\ m_warned = 1
    /\ m_pc = "done"
    /\ Len(m_pending) = 2
    /\ m_started = <<1, 2>>
    /\ m_finished = <<TRUE, TRUE>>

\* C19: every JobSpec the parser returns has at least one property group and
\* no empty group other than the first, whatever the text: a trailing empty
\* group is dropped when there are two or more groups, and runs of
\* separators leave no empty group in the middle.
C19_OnlyFirstGroupMayBeEmpty ==
    (p_pc = "done" /\ p_result.status = "ok") =>
       /\ Len(p_result.spec.props) >= 1
       /\ \A g \in 2..Len(p_result.spec.props) :
             MapLen(p_result.spec.props[g]) > 0

\* a text ending in two separators: the one group they opened was dropped
C19_Witness ==
    /\ p_pc = "done"
    /\ p_text = Join(<<<<"k">>, <<"a", "=", "1">>, <<>>, <<>>>>)
    /\ Len(p_result.spec.props) = 1
    /\ MapLen(p_result.spec.props[1]) = 1

(***************************************************************************)
(* Properties of prep_base_bench without live sourcing                     *)
(***************************************************************************)

\* C20: without live sourcing and with an identity that passes the check,
\* prepare succeeds and hands back the loaded (or default) model parameters,
\* QoS parameters and sequence number; only the identity fields are set, to
\* the detected device.
C20_KeepsLoadedParams ==
    (Prepared /\ ~b_from_sys /\ ~ModelDiffers /\ ~FwrevDiffers /\ ~SizeDiffers) =>
        /\ b_result.status = "ok"
        /\ b_result.bench.iocost_model = Loaded.iocost_model
        /\ b_result.bench.iocost_qos = Loaded.iocost_qos
        /\ b_result.bench.iocost_seq = Loaded.iocost_seq
        /\ b_result.bench.iocost_dev_model = b_dev.model
        /\ b_result.bench.iocost_dev_fwrev = b_dev.fwrev
        /\ b_result.bench.iocost_dev_size = b_dev.size

\* a loaded bench file of the detected device with its own parameters and a
\* sequence number above 1 came back as loaded
C20_Witness ==
    /\ Prepared
    /\ ~b_from_sys
    /\ b_load.status = "ok"
    /\ b_load.bench.iocost_dev_model = b_dev.model
    /\ b_load.bench.iocost_seq = 2
    /\ b_load.bench.iocost_model # "dfl"
    /\ b_result.status = "ok"
    /\ b_result.bench.iocost_seq = 2
    /\ b_result.bench.iocost_model = b_load.bench.iocost_model

(***************************************************************************)
(* Properties of the order of do_run's and do_format's steps               *)
(***************************************************************************)

\* no agent was started, no job was run and the args file was not written
NothingDone ==
    /\ m_agent = "none"
    /\ m_cleanups = <<>>
    /\ m_started = <<>>
    /\ m_finished = <<>>
    /\ m_written = 0

\* some requested spec is of a kind no benchmark is registered for
SomeUnknownKind ==
    \E k \in 1..Len(m_job_specs) : m_job_specs[k].kind \notin {KA, KB, KC, KD}

\* C21: a run invocation prepares the calibration data, then links every
\* spec, then commits and talks to the agent.  When prepare fails, or when
\* some spec is of an unknown kind, the invocation never starts an agent
\* subprocess, never runs a job and never writes the args file; whatever
\* was started or written was so after a successful prepare and with every
\* spec linked.
C21_EarlyFailureStopsEverything ==
    m_mode = "Run" =>
       /\ b_result.status = "err" => (NothingDone /\ m_pc = "panicked")
       /\ SomeUnknownKind => NothingDone
       /\ ~NothingDone =>
             /\ b_result.status = "ok"
             /\ Len(m_pending) = Len(m_job_specs)
             /\ \A k \in 1..Len(m_pending) : m_pending[k].spec = m_job_specs[k]
       /\ m_pc = "run_link" => (b_result.status = "ok" /\ NothingDone)

\* the second spec is of an unknown kind: the first one was linked, and the
\* invocation ended with nothing run and nothing written although the args
\* had been updated
C21_Witness ==
    /\ m_mode = "Run"
    /\ m_pc = "exited"
    /\ m_args_updated
    /\ Len(m_job_specs) = 3
    /\ Len(m_pending) = 1
    /\ m_job_specs[2].kind = KZ
    /\ NothingDone

\* format or summary mode with at least one requested spec
FormatsRequested ==
    m_mode \in {"Format", "Summary"} /\ Len(m_job_specs) > 0

\* the k-th rendered context is the one selected for the k-th requested
\* spec, rendered with that spec's property groups
RenderedForSpec(k) ==
    /\ m_printed[k].props = m_job_specs[k].props
    /\ m_printed[k].jctx.spec.kind = m_job_specs[k].kind
    /\ m_printed[k].jctx.spec.id = m_job_specs[k].id

\* C22: formatting with requested specs matches and validates every spec
\* before it renders anything.  When a spec has no matching context or fails
\* the capability check the invocation ends with nothing rendered and the
\* configuration not committed; rendering starts only with a context
\* selected for every spec, and goes in the order of the requested specs.
C22_FormatAllOrNothing ==
    FormatsRequested =>
       /\ m_pc \in {"exited", "fmt_swap", "fmt_select"} =>
             (m_printed = <<>> /\ m_written = 0)
       /\ m_printed # <<>> => Len(m_to_format) = Len(m_job_specs)
       /\ Len(m_printed) <= Len(m_job_specs)
       /\ \A k \in 1..Len(m_printed) : RenderedForSpec(k)
       /\ m_pc = "done" => Len(m_printed) = Len(m_job_specs)
       /\ m_written > 0 => m_pc = "done"

\* the first spec was matched and validated, the second one was refused:
\* nothing was rendered and nothing committed, although args were updated
C22_Witness ==
    /\ FormatsRequested
    /\ m_pc = "exited"
    /\ m_args_updated
    /\ Len(m_job_specs) = 2
    /\ Len(m_to_format) = 1
    /\ m_printed = <<>>
    /\ m_written = 0

====
